---- MODULE Spec2Model ----
(***************************************************************************)
(* The LS-DYNA keyword-file generators of scripts/preprocess:              *)
(*   fem_box_mesh.py        generate_fem_box     (prog = "fem_box")        *)
(*   fem_sphere_generate.py generate_hex_sphere  (prog = "fem_sphere")     *)
(*   sph_box_generate.py    generate_sph_box     (prog = "sph_box")        *)
(*   sph_sphere_generate.py generate_sph_sphere  (prog = "sph_sphere")     *)
(*   sph_geo_generate.py    main                 (prog = "sph_geo")        *)
(* One behaviour is one run of one script on one configuration (the        *)
(* module-level settings of the script).  Real numbers are exact           *)
(* rationals <<numerator, denominator>>; integers are Python integers.     *)
(***************************************************************************)
EXTENDS Integers, Sequences, FiniteSets, TLC

VARIABLES
    prog,           \* which script runs
    cfg,            \* its configuration section
    pc,             \* position in the script
    err,            \* the exception that ended the run, or "none"
    idx,            \* <<i, j, k>> of the running nested loop, or End
    current_nid,    \* current_nid / nid_counter / nid
    current_eid,    \* current_eid / eid
    current_nid_ref,\* current_nid_ref, nid: the node a particle record references
    node_map,       \* node_map (fem_box), nodes (fem_sphere): (i,j,k) -> ID
    node_lines,     \* node_lines (fem_box)
    element_lines,  \* element_lines (fem_box), elements (fem_sphere)
    coords,         \* coords (sph_box), valid_particles (sph_sphere), box_coords (sph_geo)
    sph_coords,     \* sph_coords (sph_geo)
    particle_mass,  \* particle_mass (sph_box, sph_sphere), box_mass (sph_geo)
    sph_mass,       \* sph_mass (sph_geo)
    wi,             \* how many items of the list being written are written
    warned,         \* the [WARN] line of sph_geo was printed
    fstate,         \* the output file: "unopened", "open", "closed"
    f               \* the lines written to the output file, in order

\* the run's constants, its counters, its lists, its file
conf == <<prog, cfg>>
ctrs == <<idx, current_nid, current_eid, current_nid_ref, wi>>
fem == <<node_map, node_lines, element_lines>>
sph == <<coords, sph_coords, particle_mass, sph_mass>>
io == <<fstate, f>>

vars == <<conf, pc, err, ctrs, fem, sph, warned, io>>

----------------------------------------------------------------------------
(* Bounds of the model. *)

\* largest per-axis resolution of a box grid
MaxRes == 3
\* largest sphere density (fem_sphere)
MaxDensity == 2
\* largest per-axis grid of a masked sphere
MaxGrid == 4
\* start IDs of the two regions of sph_geo range over 1..MaxStart
MaxStart == 5

\* resolutions include zero and a negative count
Res == -1..MaxRes
Densities == -1..MaxDensity
Grids == -1..MaxGrid
\* an axis extent <<min, max>>: regular, empty, inverted
Extents == {<<0, 2>>, <<1, 1>>, <<2, 0>>}
\* radii: regular, zero, negative
Radii == {2, 0, -1}
\* the width of an integer field: {nid:8d}
FieldWidth == 8
\* the largest number that fits the field
MaxFieldId == 10 ^ FieldWidth - 1
\* a start ID whose range runs past the field
HighStart == MaxFieldId

----------------------------------------------------------------------------
(* Helpers: nested loops, rationals, records of the file. *)

End == <<-1, -1, -1>>

\* for i in range(NX): for j in range(NY): for k in range(NZ): the first body
FirstIdx(NX, NY, NZ) ==
    IF NX > 0 /\ NY > 0 /\ NZ > 0 THEN <<0, 0, 0>> ELSE End

\* the order a nesting with X innermost would give
NextIdxXFastest(ix, NX, NY, NZ) ==
    IF ix[1] + 1 < NX THEN <<ix[1] + 1, ix[2], ix[3]>>
    ELSE IF ix[2] + 1 < NY THEN <<0, ix[2] + 1, ix[3]>>
    ELSE IF ix[3] + 1 < NZ THEN <<0, 0, ix[3] + 1>>
    ELSE End

\* the body that follows body ix: Z innermost, then Y, then X
NextIdx(ix, NX, NY, NZ) ==
    IF ix[3] + 1 < NZ THEN <<ix[1], ix[2], ix[3] + 1>>
    ELSE IF ix[2] + 1 < NY THEN <<ix[1], ix[2] + 1, 0>>
    ELSE IF ix[1] + 1 < NX THEN <<ix[1] + 1, 0, 0>>
    ELSE End

\* min + (i + off2/2) * ((max - min)/n), as the rational <<num, den>>
Pos(min, max, n, i, off2) ==
    <<2 * n * min + (2 * i + off2) * (max - min), 2 * n>>

Abs(n) == IF n < 0 THEN -n ELSE n

Marker(s) == [t |-> "marker", s |-> s]

NodeRec(id, x, y, z) == [t |-> "node", id |-> id, x |-> x, y |-> y, z |-> z]

SolidRec(eid, pid, n) == [t |-> "solid", eid |-> eid, pid |-> pid, n |-> n]

SphRec(eid, pid, nid, mass) ==
    [t |-> "sph", eid |-> eid, pid |-> pid, nid |-> nid, mass |-> mass]

RECURSIVE NatDigits(_)
\* the number of decimal digits of n >= 0
NatDigits(n) == IF n < 10 THEN 1 ELSE 1 + NatDigits(n \div 10)

\* the number of characters "{n:8d}" produces: a minimum width, never a truncation
IntChars(n) ==
    LET w == IF n < 0 THEN 1 + NatDigits(-n) ELSE NatDigits(n)
    IN  IF w > FieldWidth THEN w ELSE FieldWidth

\* the integers a record's line formats with "8d", in the order of its fields
IntFields(r) ==
    CASE r.t = "node" -> <<r.id>>
      [] r.t = "solid" -> <<r.eid, r.pid>> \o r.n
      [] r.t = "sph" -> <<r.eid, r.pid, r.nid>>
      [] OTHER -> <<>>

\* "{particle_mass:16.6e}": six digits after the point, one before it
MantissaDecimals == 6

SigDigits == MantissaDecimals + 1

RECURSIVE Scale(_, _, _)
\* a/d = (a'/d') * 10^(-k) with 10^(SigDigits-1) <= a'/d' < 10^SigDigits, for a, d > 0
Scale(a, d, k) ==
    IF a < 10 ^ (SigDigits - 1) * d THEN Scale(10 * a, d, k + 1)
    ELSE IF a >= 10 ^ SigDigits * d THEN Scale(a, 10 * d, k - 1)
    ELSE <<a, d, k>>

\* a/d rounded to the nearest integer, ties to even, for a >= 0 and d > 0
RoundHalfEven(a, d) ==
    LET q == a \div d
        r == a % d
    IN  IF 2 * r > d \/ (2 * r = d /\ q % 2 = 1) THEN q + 1 ELSE q

\* the number "{m:16.6e}" writes for the rational m = <<num, den>>: m rounded to
\* one digit before and six after the point, as the rational <<num', den'>>
Fmt6e(m) ==
    LET neg == (m[1] < 0) # (m[2] < 0)
        a == Abs(m[1])
        d == Abs(m[2])
    IN  IF a = 0 THEN <<0, 1>>
        ELSE LET s == Scale(a, d, 0)
                 digits == RoundHalfEven(s[1], s[2])
                 k == s[3]
             IN  <<(IF neg THEN -1 ELSE 1) * digits * (IF k < 0 THEN 10 ^ (-k) ELSE 1),
                   IF k > 0 THEN 10 ^ k ELSE 1>>

RECURSIVE SumChars(_)
\* the characters the integer fields s take on a line
SumChars(s) == IF s = <<>> THEN 0 ELSE IntChars(Head(s)) + SumChars(Tail(s))

----------------------------------------------------------------------------
(* fem_box_mesh.py: generate_fem_box *)

FemBoxBase ==
    [x |-> <<0, 2>>, y |-> <<0, 2>>, z |-> <<0, 1>>,
     num_elem_x |-> 1, num_elem_y |-> 1, num_elem_z |-> 1,
     part_id |-> 7, start_nid |-> 11, start_eid |-> 21]

FemBoxCfgs ==
    {[FemBoxBase EXCEPT !.num_elem_x = r[1], !.num_elem_y = r[2], !.num_elem_z = r[3]] :
        r \in Res \X Res \X Res}
    \cup {[FemBoxBase EXCEPT !.x = e[1], !.y = e[2], !.z = e[3]] :
        e \in Extents \X Extents \X Extents}
    \cup {[FemBoxBase EXCEPT !.start_nid = HighStart, !.start_eid = s] :
        s \in {21, HighStart}}

num_node_x == cfg.num_elem_x + 1
num_node_y == cfg.num_elem_y + 1
num_node_z == cfg.num_elem_z + 1

\* an element loop that runs over the node grid
FemBoxElemRangeNodes == <<num_node_x, num_node_y, num_node_z>>

\* lines 96-98: range(num_elem_x), range(num_elem_y), range(num_elem_z)
FemBoxElemRange == <<cfg.num_elem_x, cfg.num_elem_y, cfg.num_elem_z>>

\* lines 47-66: grid sizes, dx dy dz (a division by the element count), counters
FemBoxSetup ==
    /\ prog = "fem_box" /\ pc = "start"
    /\ IF cfg.num_elem_x = 0 \/ cfg.num_elem_y = 0 \/ cfg.num_elem_z = 0
         THEN /\ pc' = "crashed"
              /\ err' = "ZeroDivisionError"
              /\ UNCHANGED <<idx, current_nid>>
         ELSE /\ current_nid' = cfg.start_nid
              /\ idx' = FirstIdx(num_node_x, num_node_y, num_node_z)
              /\ pc' = "nodes"
              /\ err' = err
    /\ UNCHANGED <<conf, current_eid, current_nid_ref, wi, fem, sph, warned, io>>

\* lines 76-89: one body of the node loop
FemBoxNode ==
    /\ prog = "fem_box" /\ pc = "nodes" /\ idx # End
    /\ node_lines' = Append(node_lines,
          NodeRec(current_nid,
                  Pos(cfg.x[1], cfg.x[2], cfg.num_elem_x, idx[1], 0),
                  Pos(cfg.y[1], cfg.y[2], cfg.num_elem_y, idx[2], 0),
                  Pos(cfg.z[1], cfg.z[2], cfg.num_elem_z, idx[3], 0)))
    /\ node_map' = (idx :> current_nid) @@ node_map
    /\ current_nid' = current_nid + 1
    /\ idx' = NextIdx(idx, num_node_x, num_node_y, num_node_z)
    /\ UNCHANGED <<conf, pc, err, current_eid, current_nid_ref, wi, element_lines,
                   sph, warned, io>>

\* line 93: the node loop is over; current_eid = start_eid
FemBoxNodesDone ==
    /\ prog = "fem_box" /\ pc = "nodes" /\ idx = End
    /\ current_eid' = cfg.start_eid
    /\ idx' = FirstIdx(FemBoxElemRange[1], FemBoxElemRange[2], FemBoxElemRange[3])
    /\ pc' = "elems"
    /\ UNCHANGED <<conf, err, current_nid, current_nid_ref, wi, fem, sph, warned, io>>

\* a corner order with the bottom face walked the other way round
FemBoxCornersSwapped(ix) ==
    << <<ix[1], ix[2], ix[3]>>,         <<ix[1], ix[2] + 1, ix[3]>>,
       <<ix[1] + 1, ix[2] + 1, ix[3]>>, <<ix[1] + 1, ix[2], ix[3]>>,
       <<ix[1], ix[2], ix[3] + 1>>,     <<ix[1] + 1, ix[2], ix[3] + 1>>,
       <<ix[1] + 1, ix[2] + 1, ix[3] + 1>>, <<ix[1], ix[2] + 1, ix[3] + 1>> >>

\* lines 116-124: p1 .. p8
FemBoxCorners(ix) ==
    << <<ix[1], ix[2], ix[3]>>,         <<ix[1] + 1, ix[2], ix[3]>>,
       <<ix[1] + 1, ix[2] + 1, ix[3]>>, <<ix[1], ix[2] + 1, ix[3]>>,
       <<ix[1], ix[2], ix[3] + 1>>,     <<ix[1] + 1, ix[2], ix[3] + 1>>,
       <<ix[1] + 1, ix[2] + 1, ix[3] + 1>>, <<ix[1], ix[2] + 1, ix[3] + 1>> >>

\* lines 96-132: one body of the element loop; a missing key is a KeyError
FemBoxElem ==
    /\ prog = "fem_box" /\ pc = "elems" /\ idx # End
    /\ LET p == FemBoxCorners(idx) IN
       IF \E c \in 1..8 : p[c] \notin DOMAIN node_map
         THEN /\ pc' = "crashed"
              /\ err' = "KeyError"
              /\ UNCHANGED <<idx, element_lines, current_eid>>
         ELSE /\ element_lines' = Append(element_lines,
                    SolidRec(current_eid, cfg.part_id, [c \in 1..8 |-> node_map[p[c]]]))
              /\ current_eid' = current_eid + 1
              /\ idx' = NextIdx(idx, FemBoxElemRange[1], FemBoxElemRange[2],
                                FemBoxElemRange[3])
              /\ UNCHANGED <<pc, err>>
    /\ UNCHANGED <<conf, current_nid, current_nid_ref, wi, node_map, node_lines,
                   sph, warned, io>>

\* line 135: the element loop is over
FemBoxElemsDone ==
    /\ prog = "fem_box" /\ pc = "elems" /\ idx = End
    /\ pc' = "open"
    /\ UNCHANGED <<conf, err, ctrs, fem, sph, warned, io>>

\* line 140: f.writelines(node_lines)
FemBoxWriteNodes ==
    /\ prog = "fem_box" /\ pc = "w_nodes"
    /\ f' = f \o node_lines
    /\ pc' = "w_elem"
    /\ UNCHANGED <<conf, err, ctrs, fem, sph, warned, fstate>>

\* line 144: f.writelines(element_lines)
FemBoxWriteElems ==
    /\ prog = "fem_box" /\ pc = "w_elems"
    /\ f' = f \o element_lines
    /\ pc' = "w_end"
    /\ UNCHANGED <<conf, err, ctrs, fem, sph, warned, fstate>>

----------------------------------------------------------------------------
(* fem_sphere_generate.py: generate_hex_sphere *)

HexSphereBase ==
    [radius |-> 2, cx |-> 0, cy |-> 0, cz |-> 3, density |-> 1,
     part_id |-> 7, start_nid |-> 11, start_eid |-> 21]

HexSphereCfgs ==
    {[HexSphereBase EXCEPT !.density = d] : d \in Densities}
    \cup {[HexSphereBase EXCEPT !.radius = r] : r \in Radii}
    \cup {[HexSphereBase EXCEPT !.start_nid = HighStart, !.start_eid = s] :
        s \in {21, HighStart}}

\* lines 37-39
elements_per_side == 2 * cfg.density
nodes_per_side == elements_per_side + 1

\* the radicand with its last term halved instead of divided by three
RadicandHalved(b, c, N) ==
    6 * N * N * N * N - 3 * N * N * (b * b + c * c) + 3 * b * b * c * c

\* 6 N^4 (1 - v^2/2 - w^2/2 + v^2 w^2/3) for v = b/N, w = c/N
Radicand(b, c, N) == 6 * N * N * N * N - 3 * N * N * (b * b + c * c) + 2 * b * b * c * c

\* lines 57-72, 121-131: ctr + radius * u * sqrt(1 - v^2/2 - w^2/2 + v^2 w^2/3)
\* for u = a/N, v = b/N, w = c/N: the number  c + m * sqrt(rad / (6 n^4)) / n
CubedSphere(ctr, radius, a, b, c, N) ==
    [c |-> ctr, m |-> radius * a, rad |-> Radicand(b, c, N), n |-> N]

\* lines 37-48
HexSphereSetup ==
    /\ prog = "fem_sphere" /\ pc = "start"
    /\ current_nid' = cfg.start_nid
    /\ idx' = FirstIdx(nodes_per_side, nodes_per_side, nodes_per_side)
    /\ pc' = "nodes"
    /\ UNCHANGED <<conf, err, current_eid, current_nid_ref, wi, fem, sph, warned, io>>

\* lines 52-80: one body of the node loop; (i - N) / N divides by the density
HexSphereNode ==
    /\ prog = "fem_sphere" /\ pc = "nodes" /\ idx # End
    /\ IF cfg.density = 0
         THEN /\ pc' = "crashed"
              /\ err' = "ZeroDivisionError"
              /\ UNCHANGED <<node_map, current_nid, idx>>
         ELSE /\ node_map' = (idx :> current_nid) @@ node_map
              /\ current_nid' = current_nid + 1
              /\ idx' = NextIdx(idx, nodes_per_side, nodes_per_side, nodes_per_side)
              /\ UNCHANGED <<pc, err>>
    /\ UNCHANGED <<conf, current_eid, current_nid_ref, wi, node_lines, element_lines,
                   sph, warned, io>>

\* line 83: the node loop is over; current_eid = start_eid
HexSphereNodesDone ==
    /\ prog = "fem_sphere" /\ pc = "nodes" /\ idx = End
    /\ current_eid' = cfg.start_eid
    /\ idx' = FirstIdx(elements_per_side, elements_per_side, elements_per_side)
    /\ pc' = "elems"
    /\ UNCHANGED <<conf, err, current_nid, current_nid_ref, wi, fem, sph, warned, io>>

\* a corner order with the top face listed before the bottom face
HexSphereCornersTopFirst(ix) ==
    << <<ix[1], ix[2], ix[3] + 1>>,     <<ix[1] + 1, ix[2], ix[3] + 1>>,
       <<ix[1] + 1, ix[2] + 1, ix[3] + 1>>, <<ix[1], ix[2] + 1, ix[3] + 1>>,
       <<ix[1], ix[2], ix[3]>>,         <<ix[1] + 1, ix[2], ix[3]>>,
       <<ix[1] + 1, ix[2] + 1, ix[3]>>, <<ix[1], ix[2] + 1, ix[3]>> >>

\* lines 91-99: the keys of n1 .. n8
HexSphereCorners(ix) ==
    << <<ix[1], ix[2], ix[3]>>,         <<ix[1] + 1, ix[2], ix[3]>>,
       <<ix[1] + 1, ix[2] + 1, ix[3]>>, <<ix[1], ix[2] + 1, ix[3]>>,
       <<ix[1], ix[2], ix[3] + 1>>,     <<ix[1] + 1, ix[2], ix[3] + 1>>,
       <<ix[1] + 1, ix[2] + 1, ix[3] + 1>>, <<ix[1], ix[2] + 1, ix[3] + 1>> >>

\* lines 85-102: one body of the element loop; a missing key is a KeyError
HexSphereElem ==
    /\ prog = "fem_sphere" /\ pc = "elems" /\ idx # End
    /\ LET p == HexSphereCorners(idx) IN
       IF \E c \in 1..8 : p[c] \notin DOMAIN node_map
         THEN /\ pc' = "crashed"
              /\ err' = "KeyError"
              /\ UNCHANGED <<idx, element_lines, current_eid>>
         ELSE /\ element_lines' = Append(element_lines,
                    SolidRec(current_eid, cfg.part_id, [c \in 1..8 |-> node_map[p[c]]]))
              /\ current_eid' = current_eid + 1
              /\ idx' = NextIdx(idx, elements_per_side, elements_per_side,
                                elements_per_side)
              /\ UNCHANGED <<pc, err>>
    /\ UNCHANGED <<conf, current_nid, current_nid_ref, wi, node_map, node_lines,
                   sph, warned, io>>

\* line 107: the element loop is over
HexSphereElemsDone ==
    /\ prog = "fem_sphere" /\ pc = "elems" /\ idx = End
    /\ pc' = "open"
    /\ UNCHANGED <<conf, err, ctrs, fem, sph, warned, io>>

\* a writing pass that nests its loops the other way round, X innermost
HexSphereWriteNodeXFastest ==
    /\ prog = "fem_sphere" /\ pc = "w_nodes" /\ idx # End
    /\ LET N == cfg.density
           a == idx[1] - N
           b == idx[2] - N
           c == idx[3] - N
       IN  f' = Append(f, NodeRec(current_nid,
                                  CubedSphere(cfg.cx, cfg.radius, a, b, c, N),
                                  CubedSphere(cfg.cy, cfg.radius, b, a, c, N),
                                  CubedSphere(cfg.cz, cfg.radius, c, a, b, N)))
    /\ current_nid' = current_nid + 1
    /\ idx' = NextIdxXFastest(idx, nodes_per_side, nodes_per_side, nodes_per_side)
    /\ UNCHANGED <<conf, pc, err, current_eid, current_nid_ref, wi, fem, sph,
                   warned, fstate>>

\* lines 118-134: one body of the loop that writes the node records
HexSphereWriteNode ==
    /\ prog = "fem_sphere" /\ pc = "w_nodes" /\ idx # End
    /\ LET N == cfg.density
           a == idx[1] - N
           b == idx[2] - N
           c == idx[3] - N
       IN  f' = Append(f, NodeRec(current_nid,
                                  CubedSphere(cfg.cx, cfg.radius, a, b, c, N),
                                  CubedSphere(cfg.cy, cfg.radius, b, a, c, N),
                                  CubedSphere(cfg.cz, cfg.radius, c, a, b, N)))
    /\ current_nid' = current_nid + 1
    /\ idx' = NextIdx(idx, nodes_per_side, nodes_per_side, nodes_per_side)
    /\ UNCHANGED <<conf, pc, err, current_eid, current_nid_ref, wi, fem, sph,
                   warned, fstate>>

\* line 137 is next: the loop that writes the node records is over
HexSphereWriteNodesDone ==
    /\ prog = "fem_sphere" /\ pc = "w_nodes" /\ idx = End
    /\ pc' = "w_elem"
    /\ UNCHANGED <<conf, err, ctrs, fem, sph, warned, io>>

\* lines 138-140: one element record written
HexSphereWriteElem ==
    /\ prog = "fem_sphere" /\ pc = "w_elems" /\ wi < Len(element_lines)
    /\ f' = Append(f, element_lines[wi + 1])
    /\ wi' = wi + 1
    /\ UNCHANGED <<conf, pc, err, idx, current_nid, current_eid, current_nid_ref,
                   fem, sph, warned, fstate>>

\* line 142 is next: every element record is written
HexSphereWriteElemsDone ==
    /\ prog = "fem_sphere" /\ pc = "w_elems" /\ wi >= Len(element_lines)
    /\ pc' = "w_end"
    /\ UNCHANGED <<conf, err, ctrs, fem, sph, warned, io>>

----------------------------------------------------------------------------
(* sph_box_generate.py: generate_sph_box *)

SphBoxBase ==
    [x |-> <<0, 2>>, y |-> <<0, 2>>, z |-> <<0, 1>>,
     num_x |-> 1, num_y |-> 1, num_z |-> 1, density |-> 3,
     part_id |-> 7, start_nid |-> 11, start_eid |-> 21]

SphBoxCfgs ==
    {[SphBoxBase EXCEPT !.num_x = r[1], !.num_y = r[2], !.num_z = r[3]] :
        r \in Res \X Res \X Res}
    \cup {[SphBoxBase EXCEPT !.x = e[1], !.y = e[2], !.z = e[3]] :
        e \in Extents \X Extents \X Extents}
    \cup {[SphBoxBase EXCEPT !.start_nid = HighStart, !.start_eid = s] :
        s \in {21, HighStart}}

\* a cell mass that leaves dz out of the cell volume
CellMassFlat(density, lx, ly, lz, nx, ny, nz) ==
    <<density * lx * ly, nx * ny>>

\* density * dx * dy * dz with dx = (x_max - x_min) / num_x, ...
CellMass(density, lx, ly, lz, nx, ny, nz) ==
    <<density * lx * ly * lz, nx * ny * nz>>

\* a particle count taken from the corners of the cells
total_particles_corners == (cfg.num_x + 1) * (cfg.num_y + 1) * (cfg.num_z + 1)

\* line 54
total_particles == cfg.num_x * cfg.num_y * cfg.num_z

\* lines 45-54: dx dy dz (a division by the particle count), particle_mass
SphBoxSetup ==
    /\ prog = "sph_box" /\ pc = "start"
    /\ IF cfg.num_x = 0 \/ cfg.num_y = 0 \/ cfg.num_z = 0
         THEN /\ pc' = "crashed"
              /\ err' = "ZeroDivisionError"
              /\ UNCHANGED particle_mass
         ELSE /\ particle_mass' = CellMass(cfg.density, cfg.x[2] - cfg.x[1],
                                           cfg.y[2] - cfg.y[1], cfg.z[2] - cfg.z[1],
                                           cfg.num_x, cfg.num_y, cfg.num_z)
              /\ pc' = "open"
              /\ err' = err
    /\ UNCHANGED <<conf, ctrs, fem, coords, sph_coords, sph_mass, warned, io>>

\* lines 72-80: one body of the loop that fills coords (the file is open)
SphBoxCoord ==
    /\ prog = "sph_box" /\ pc = "gen" /\ idx # End
    /\ coords' = Append(coords,
          NodeRec(current_nid,
                  Pos(cfg.x[1], cfg.x[2], cfg.num_x, idx[1], 1),
                  Pos(cfg.y[1], cfg.y[2], cfg.num_y, idx[2], 1),
                  Pos(cfg.z[1], cfg.z[2], cfg.num_z, idx[3], 1)))
    /\ current_nid' = current_nid + 1
    /\ idx' = NextIdx(idx, cfg.num_x, cfg.num_y, cfg.num_z)
    /\ UNCHANGED <<conf, pc, err, current_eid, current_nid_ref, wi, fem, sph_coords,
                   particle_mass, sph_mass, warned, io>>

\* line 83 is next: coords is complete
SphBoxCoordsDone ==
    /\ prog = "sph_box" /\ pc = "gen" /\ idx = End
    /\ wi' = 0
    /\ pc' = "w_nodes"
    /\ UNCHANGED <<conf, err, idx, current_nid, current_eid, current_nid_ref, fem,
                   sph, warned, io>>

\* lines 83-84: one node record written
SphBoxWriteNode ==
    /\ prog = "sph_box" /\ pc = "w_nodes" /\ wi < Len(coords)
    /\ f' = Append(f, coords[wi + 1])
    /\ wi' = wi + 1
    /\ UNCHANGED <<conf, pc, err, idx, current_nid, current_eid, current_nid_ref,
                   fem, sph, warned, fstate>>

\* line 87 is next: every node record is written
SphBoxWriteNodesDone ==
    /\ prog = "sph_box" /\ pc = "w_nodes" /\ wi >= Len(coords)
    /\ pc' = "w_elem"
    /\ UNCHANGED <<conf, err, ctrs, fem, sph, warned, io>>

\* lines 92-96: one particle record written, for _ in range(total_particles)
SphBoxWriteElem ==
    /\ prog = "sph_box" /\ pc = "w_elems" /\ wi < total_particles
    /\ f' = Append(f, SphRec(current_eid, cfg.part_id, current_nid_ref, particle_mass))
    /\ current_eid' = current_eid + 1
    /\ current_nid_ref' = current_nid_ref + 1
    /\ wi' = wi + 1
    /\ UNCHANGED <<conf, pc, err, idx, current_nid, fem, sph, warned, fstate>>

\* line 98 is next: every particle record is written
SphBoxWriteElemsDone ==
    /\ prog = "sph_box" /\ pc = "w_elems" /\ wi >= total_particles
    /\ pc' = "w_end"
    /\ UNCHANGED <<conf, err, ctrs, fem, sph, warned, io>>

----------------------------------------------------------------------------
(* The masked sphere: sph_sphere_generate.py lines 71-90 and                *)
(* sph_geo_generate.py calculate_sphere_particles lines 107-120.           *)

\* the numerator of p - c over the denominator of p
Off(p, c) == p[1] - c * p[2]

\* an X-slice test that compares the signed offset
XSliceSkipSigned(x_pos, s) == Off(x_pos, s.cx) > s.radius * x_pos[2]

\* abs(x_pos - cx) > radius
XSliceSkip(x_pos, s) == Abs(Off(x_pos, s.cx)) > s.radius * x_pos[2]

\* an XY-column test against radius instead of radius**2
XYColumnSkipNoSquare(x_pos, y_pos, s) ==
    Off(x_pos, s.cx) * Off(x_pos, s.cx) * y_pos[2] * y_pos[2]
      + Off(y_pos, s.cy) * Off(y_pos, s.cy) * x_pos[2] * x_pos[2]
    > s.radius * x_pos[2] * x_pos[2] * y_pos[2] * y_pos[2]

\* (x_pos - cx)**2 + (y_pos - cy)**2 > radius**2
XYColumnSkip(x_pos, y_pos, s) ==
    Off(x_pos, s.cx) * Off(x_pos, s.cx) * y_pos[2] * y_pos[2]
      + Off(y_pos, s.cy) * Off(y_pos, s.cy) * x_pos[2] * x_pos[2]
    > s.radius * s.radius * x_pos[2] * x_pos[2] * y_pos[2] * y_pos[2]

\* dist_sq <= radius**2
InSphere(x_pos, y_pos, z_pos, s) ==
    Off(x_pos, s.cx) * Off(x_pos, s.cx) * y_pos[2] * y_pos[2] * z_pos[2] * z_pos[2]
      + Off(y_pos, s.cy) * Off(y_pos, s.cy) * x_pos[2] * x_pos[2] * z_pos[2] * z_pos[2]
      + Off(z_pos, s.cz) * Off(z_pos, s.cz) * x_pos[2] * x_pos[2] * y_pos[2] * y_pos[2]
    <= s.radius * s.radius * x_pos[2] * x_pos[2] * y_pos[2] * y_pos[2]
         * z_pos[2] * z_pos[2]

\* x_min + (i + 0.5) * dx with x_min = cx - radius, dx = 2.0 * radius / num_x_grid
SphereX(s, i) == Pos(s.cx - s.radius, s.cx + s.radius, s.num_x_grid, i, 1)
SphereY(s, j) == Pos(s.cy - s.radius, s.cy + s.radius, s.num_y_grid, j, 1)
SphereZ(s, k) == Pos(s.cz - s.radius, s.cz + s.radius, s.num_z_grid, k, 1)

RECURSIVE SphereZLoop(_, _, _, _)
\* for k in range(num_z_grid), from k on
SphereZLoop(s, i, j, k) ==
    IF k >= s.num_z_grid THEN <<>>
    ELSE (IF InSphere(SphereX(s, i), SphereY(s, j), SphereZ(s, k), s)
            THEN << <<SphereX(s, i), SphereY(s, j), SphereZ(s, k)>> >>
            ELSE <<>>)
         \o SphereZLoop(s, i, j, k + 1)

RECURSIVE SphereYLoop(_, _, _)
\* for j in range(num_y_grid), from j on
SphereYLoop(s, i, j) ==
    IF j >= s.num_y_grid THEN <<>>
    ELSE (IF XYColumnSkip(SphereX(s, i), SphereY(s, j), s)
            THEN <<>>
            ELSE SphereZLoop(s, i, j, 0))
         \o SphereYLoop(s, i, j + 1)

RECURSIVE SphereXLoop(_, _)
\* for i in range(num_x_grid), from i on
SphereXLoop(s, i) ==
    IF i >= s.num_x_grid THEN <<>>
    ELSE (IF XSliceSkip(SphereX(s, i), s)
            THEN <<>>
            ELSE SphereYLoop(s, i, 0))
         \o SphereXLoop(s, i + 1)

\* the list the three loops build
SphereParticles(s) == SphereXLoop(s, 0)

\* density * (dx * dy * dz) with dx = 2.0 * radius / num_x_grid, ...
SphereMass(s) ==
    CellMass(s.density, 2 * s.radius, 2 * s.radius, 2 * s.radius,
             s.num_x_grid, s.num_y_grid, s.num_z_grid)

----------------------------------------------------------------------------
(* sph_sphere_generate.py: generate_sph_sphere *)

SphSphereBase ==
    [cx |-> 0, cy |-> 0, cz |-> 3, radius |-> 2,
     num_x_grid |-> 1, num_y_grid |-> 1, num_z_grid |-> 1, density |-> 3,
     part_id |-> 7, start_nid |-> 11, start_eid |-> 21]

SphSphereCfgs ==
    {[SphSphereBase EXCEPT !.num_x_grid = g[1], !.num_y_grid = g[2],
                           !.num_z_grid = g[3], !.radius = r] :
        g \in Grids \X Grids \X Grids, r \in Radii}
    \cup {[SphSphereBase EXCEPT !.start_nid = HighStart, !.start_eid = s,
                                !.num_x_grid = 2] :
        s \in {21, HighStart}}

\* lines 45-90: spacing (a division by the grid size), mass, the three loops
SphSphereGenerate ==
    /\ prog = "sph_sphere" /\ pc = "start"
    /\ IF cfg.num_x_grid = 0 \/ cfg.num_y_grid = 0 \/ cfg.num_z_grid = 0
         THEN /\ pc' = "crashed"
              /\ err' = "ZeroDivisionError"
              /\ UNCHANGED <<particle_mass, coords>>
         ELSE /\ particle_mass' = SphereMass(cfg)
              /\ coords' = SphereParticles(cfg)
              /\ pc' = "open"
              /\ err' = err
    /\ UNCHANGED <<conf, ctrs, fem, sph_coords, sph_mass, warned, io>>

\* the index of the sample of coordinate p on an axis of centre c and num cells,
\* for a positive radius
AxisIndex(p, c, num) ==
    ((p[1] - 2 * num * (c - cfg.radius)) \div (2 * cfg.radius) - 1) \div 2

\* a node record numbered by the place of its sample in the grid, so that the
\* rejected samples use up IDs
SphSphereWriteNodeGridId ==
    /\ prog = "sph_sphere" /\ pc = "w_nodes" /\ wi < Len(coords)
    /\ LET p == coords[wi + 1]
           rank == AxisIndex(p[1], cfg.cx, cfg.num_x_grid) * cfg.num_y_grid * cfg.num_z_grid
                     + AxisIndex(p[2], cfg.cy, cfg.num_y_grid) * cfg.num_z_grid
                     + AxisIndex(p[3], cfg.cz, cfg.num_z_grid)
           nid == IF cfg.radius > 0 THEN cfg.start_nid + rank ELSE current_nid
       IN  f' = Append(f, NodeRec(nid, p[1], p[2], p[3]))
    /\ current_nid' = current_nid + 1
    /\ wi' = wi + 1
    /\ UNCHANGED <<conf, pc, err, idx, current_eid, current_nid_ref, fem, sph,
                   warned, fstate>>

\* lines 101-103: one node record written
SphSphereWriteNode ==
    /\ prog = "sph_sphere" /\ pc = "w_nodes" /\ wi < Len(coords)
    /\ f' = Append(f, NodeRec(current_nid, coords[wi + 1][1], coords[wi + 1][2],
                              coords[wi + 1][3]))
    /\ current_nid' = current_nid + 1
    /\ wi' = wi + 1
    /\ UNCHANGED <<conf, pc, err, idx, current_eid, current_nid_ref, fem, sph,
                   warned, fstate>>

\* line 106 is next: every node record is written
SphSphereWriteNodesDone ==
    /\ prog = "sph_sphere" /\ pc = "w_nodes" /\ wi >= Len(coords)
    /\ pc' = "w_elem"
    /\ UNCHANGED <<conf, err, ctrs, fem, sph, warned, io>>

\* lines 110-114: one particle record written, for _ in valid_particles
SphSphereWriteElem ==
    /\ prog = "sph_sphere" /\ pc = "w_elems" /\ wi < Len(coords)
    /\ f' = Append(f, SphRec(current_eid, cfg.part_id, current_nid_ref, particle_mass))
    /\ current_eid' = current_eid + 1
    /\ current_nid_ref' = current_nid_ref + 1
    /\ wi' = wi + 1
    /\ UNCHANGED <<conf, pc, err, idx, current_nid, fem, sph, warned, fstate>>

\* line 116 is next: every particle record is written
SphSphereWriteElemsDone ==
    /\ prog = "sph_sphere" /\ pc = "w_elems" /\ wi >= Len(coords)
    /\ pc' = "w_end"
    /\ UNCHANGED <<conf, err, ctrs, fem, sph, warned, io>>

----------------------------------------------------------------------------
(* sph_geo_generate.py: calculate_box_particles, calculate_sphere_particles, *)
(* main                                                                     *)

GeoBoxBase ==
    [enable |-> TRUE, x |-> <<0, 2>>, y |-> <<0, 2>>, z |-> <<0, 1>>,
     num_x |-> 2, num_y |-> 1, num_z |-> 1, density |-> 3,
     part_id |-> 7, start_nid |-> 2, start_eid |-> 1]

GeoSphereBase ==
    [enable |-> TRUE, cx |-> 0, cy |-> 0, cz |-> 3, radius |-> 2,
     num_x_grid |-> 2, num_y_grid |-> 1, num_z_grid |-> 1, density |-> 3,
     part_id |-> 8, start_nid |-> 1, start_eid |-> 3]

GeoCfgs ==
    {[box |-> [GeoBoxBase EXCEPT !.start_nid = bn, !.start_eid = be],
      sphere |-> [GeoSphereBase EXCEPT !.start_nid = sn, !.start_eid = se]] :
        bn \in 1..MaxStart, sn \in 1..MaxStart, be \in {1, 3}, se \in {1, 3}}
    \cup {[box |-> [GeoBoxBase EXCEPT !.enable = eb],
           sphere |-> [GeoSphereBase EXCEPT !.enable = es]] :
        eb \in BOOLEAN, es \in BOOLEAN}
    \cup {[box |-> [GeoBoxBase EXCEPT !.num_x = r[1], !.num_y = r[2], !.num_z = r[3]],
           sphere |-> GeoSphereBase] :
        r \in Res \X Res \X Res}
    \cup {[box |-> [GeoBoxBase EXCEPT !.x = e[1], !.y = e[2], !.z = e[3]],
           sphere |-> GeoSphereBase] :
        e \in Extents \X Extents \X Extents}
    \cup {[box |-> [GeoBoxBase EXCEPT !.start_nid = 11, !.start_eid = 11],
           sphere |-> [GeoSphereBase EXCEPT !.num_x_grid = g[1], !.num_y_grid = g[2],
                                            !.num_z_grid = g[3]]] :
        g \in Grids \X Grids \X Grids}
    \cup {[box |-> GeoBoxBase, sphere |-> [GeoSphereBase EXCEPT !.radius = r]] :
        r \in Radii}
    \cup {[box |-> [GeoBoxBase EXCEPT !.start_nid = HighStart, !.start_eid = HighStart],
           sphere |-> GeoSphereBase]}

RECURSIVE BoxLoop(_, _)
\* lines 76-82: the bodies of the three loops from body ix on
BoxLoop(b, ix) ==
    IF ix = End THEN <<>>
    ELSE << <<Pos(b.x[1], b.x[2], b.num_x, ix[1], 1),
              Pos(b.y[1], b.y[2], b.num_y, ix[2], 1),
              Pos(b.z[1], b.z[2], b.num_z, ix[3], 1)>> >>
         \o BoxLoop(b, NextIdx(ix, b.num_x, b.num_y, b.num_z))

\* lines 74-84: coords of calculate_box_particles
BoxParticles(b) == BoxLoop(b, FirstIdx(b.num_x, b.num_y, b.num_z))

\* lines 70-72: (total_volume * density) / total_particles
BoxMass(b) ==
    <<((b.x[2] - b.x[1]) * (b.y[2] - b.y[1]) * (b.z[2] - b.z[1])) * b.density,
      b.num_x * b.num_y * b.num_z>>

\* line 132: box_coords, box_mass = calculate_box_particles(box_cfg)
GeoCalcBox ==
    /\ prog = "sph_geo" /\ pc = "start"
    /\ IF ~cfg.box.enable
         THEN /\ coords' = <<>>
              /\ particle_mass' = <<0, 1>>
              /\ pc' = "calc_sphere"
              /\ err' = err
         ELSE IF cfg.box.num_x = 0 \/ cfg.box.num_y = 0 \/ cfg.box.num_z = 0
         THEN /\ pc' = "crashed"
              /\ err' = "ZeroDivisionError"
              /\ UNCHANGED <<coords, particle_mass>>
         ELSE /\ coords' = BoxParticles(cfg.box)
              /\ particle_mass' = BoxMass(cfg.box)
              /\ pc' = "calc_sphere"
              /\ err' = err
    /\ UNCHANGED <<conf, ctrs, fem, sph_coords, sph_mass, warned, io>>

\* line 133: sph_coords, sph_mass = calculate_sphere_particles(sphere_cfg)
GeoCalcSphere ==
    /\ prog = "sph_geo" /\ pc = "calc_sphere"
    /\ IF ~cfg.sphere.enable
         THEN /\ sph_coords' = <<>>
              /\ sph_mass' = <<0, 1>>
              /\ pc' = "check"
              /\ err' = err
         ELSE IF cfg.sphere.num_x_grid = 0 \/ cfg.sphere.num_y_grid = 0
                 \/ cfg.sphere.num_z_grid = 0
         THEN /\ pc' = "crashed"
              /\ err' = "ZeroDivisionError"
              /\ UNCHANGED <<sph_coords, sph_mass>>
         ELSE /\ sph_coords' = SphereParticles(cfg.sphere)
              /\ sph_mass' = SphereMass(cfg.sphere)
              /\ pc' = "check"
              /\ err' = err
    /\ UNCHANGED <<conf, ctrs, fem, coords, particle_mass, warned, io>>

\* an overlap test that also flags touching ranges
OverlapTestClosed(bs, be, ss, se) == (bs <= se) /\ (ss <= be)

\* line 143: (box start_nid < sph_end_nid) and (sphere start_nid < box_end_nid)
OverlapTest(bs, be, ss, se) == (bs < se) /\ (ss < be)

\* an overlap check that raises instead of warning
GeoCheckOverlapFatal ==
    /\ prog = "sph_geo" /\ pc = "check"
    /\ warned' = (/\ cfg.box.enable /\ cfg.sphere.enable
                  /\ OverlapTest(cfg.box.start_nid,
                                 cfg.box.start_nid + Len(coords),
                                 cfg.sphere.start_nid,
                                 cfg.sphere.start_nid + Len(sph_coords)))
    /\ pc' = IF warned' THEN "crashed" ELSE "open"
    /\ err' = IF warned' THEN "ValueError" ELSE err
    /\ UNCHANGED <<conf, ctrs, fem, sph, io>>

\* lines 139-144: the overlap check, a warning printed and nothing else
GeoCheckOverlap ==
    /\ prog = "sph_geo" /\ pc = "check"
    /\ warned' = (/\ cfg.box.enable /\ cfg.sphere.enable
                  /\ OverlapTest(cfg.box.start_nid,
                                 cfg.box.start_nid + Len(coords),
                                 cfg.sphere.start_nid,
                                 cfg.sphere.start_nid + Len(sph_coords)))
    /\ pc' = "open"
    /\ UNCHANGED <<conf, err, ctrs, fem, sph, io>>

\* lines 156-158: one node record of the box written
GeoWriteBoxNode ==
    /\ prog = "sph_geo" /\ pc = "w_nodes" /\ cfg.box.enable /\ wi < Len(coords)
    /\ f' = Append(f, NodeRec(current_nid, coords[wi + 1][1], coords[wi + 1][2],
                              coords[wi + 1][3]))
    /\ current_nid' = current_nid + 1
    /\ wi' = wi + 1
    /\ UNCHANGED <<conf, pc, err, idx, current_eid, current_nid_ref, fem, sph,
                   warned, fstate>>

\* lines 161-162: the box's nodes are written; the sphere's nid is set
GeoBoxNodesDone ==
    /\ prog = "sph_geo" /\ pc = "w_nodes" /\ (~cfg.box.enable \/ wi >= Len(coords))
    /\ current_nid' = IF cfg.sphere.enable THEN cfg.sphere.start_nid ELSE current_nid
    /\ wi' = 0
    /\ pc' = "w_nodes2"
    /\ UNCHANGED <<conf, err, idx, current_eid, current_nid_ref, fem, sph, warned, io>>

\* lines 163-165: one node record of the sphere written
GeoWriteSphNode ==
    /\ prog = "sph_geo" /\ pc = "w_nodes2" /\ cfg.sphere.enable /\ wi < Len(sph_coords)
    /\ f' = Append(f, NodeRec(current_nid, sph_coords[wi + 1][1], sph_coords[wi + 1][2],
                              sph_coords[wi + 1][3]))
    /\ current_nid' = current_nid + 1
    /\ wi' = wi + 1
    /\ UNCHANGED <<conf, pc, err, idx, current_eid, current_nid_ref, fem, sph,
                   warned, fstate>>

\* line 168 is next: the sphere's nodes are written
GeoSphNodesDone ==
    /\ prog = "sph_geo" /\ pc = "w_nodes2"
    /\ (~cfg.sphere.enable \/ wi >= Len(sph_coords))
    /\ pc' = "w_elem"
    /\ UNCHANGED <<conf, err, ctrs, fem, sph, warned, io>>

\* lines 175-178: one particle record of the box written
GeoWriteBoxElem ==
    /\ prog = "sph_geo" /\ pc = "w_elems" /\ cfg.box.enable /\ wi < Len(coords)
    /\ f' = Append(f, SphRec(current_eid, cfg.box.part_id, current_nid_ref,
                             particle_mass))
    /\ current_eid' = current_eid + 1
    /\ current_nid_ref' = current_nid_ref + 1
    /\ wi' = wi + 1
    /\ UNCHANGED <<conf, pc, err, idx, current_nid, fem, sph, warned, fstate>>

\* lines 181-184: the box's particles are written; the sphere's eid, nid are set
GeoBoxElemsDone ==
    /\ prog = "sph_geo" /\ pc = "w_elems" /\ (~cfg.box.enable \/ wi >= Len(coords))
    /\ current_eid' = IF cfg.sphere.enable THEN cfg.sphere.start_eid ELSE current_eid
    /\ current_nid_ref' =
          IF cfg.sphere.enable THEN cfg.sphere.start_nid ELSE current_nid_ref
    /\ wi' = 0
    /\ pc' = "w_elems2"
    /\ UNCHANGED <<conf, err, idx, current_nid, fem, sph, warned, io>>

\* lines 185-188: one particle record of the sphere written
GeoWriteSphElem ==
    /\ prog = "sph_geo" /\ pc = "w_elems2" /\ cfg.sphere.enable
    /\ wi < Len(sph_coords)
    /\ f' = Append(f, SphRec(current_eid, cfg.sphere.part_id, current_nid_ref,
                             sph_mass))
    /\ current_eid' = current_eid + 1
    /\ current_nid_ref' = current_nid_ref + 1
    /\ wi' = wi + 1
    /\ UNCHANGED <<conf, pc, err, idx, current_nid, fem, sph, warned, fstate>>

\* line 190 is next: the sphere's particles are written
GeoSphElemsDone ==
    /\ prog = "sph_geo" /\ pc = "w_elems2"
    /\ (~cfg.sphere.enable \/ wi >= Len(sph_coords))
    /\ pc' = "w_end"
    /\ UNCHANGED <<conf, err, ctrs, fem, sph, warned, io>>

----------------------------------------------------------------------------
(* The with-block every script ends with: open, markers, close. *)

\* with open(output_filename, 'w') as f: the file is created or truncated
OpenFile ==
    /\ pc = "open"
    /\ fstate' = "open"
    /\ f' = <<>>
    /\ pc' = "w_keyword"
    /\ UNCHANGED <<conf, err, ctrs, fem, sph, warned>>

\* open() raises: the script ends with the exception, no file object exists
OpenFails ==
    /\ pc = "open"
    /\ pc' = "crashed"
    /\ err' = "OSError"
    /\ UNCHANGED <<conf, ctrs, fem, sph, warned, io>>

\* the positions inside the with-block at which the next statement can raise
InWithBlock ==
    {"w_keyword", "w_node", "gen", "w_nodes", "w_nodes2", "w_elem", "w_elems",
     "w_elems2", "w_end"}

\* an exception inside a block that does not release the file
WriteFailsLeak ==
    /\ fstate = "open" /\ pc \in InWithBlock
    /\ pc' = "crashed"
    /\ err' = IF pc = "gen" THEN "MemoryError" ELSE "OSError"
    /\ UNCHANGED <<conf, ctrs, fem, sph, warned, io>>

\* f.write (or, in sph_box, the generation code inside the block) raises: the
\* with-block closes the file, what was written stays at the path, and the
\* exception ends the script
WriteFails ==
    /\ fstate = "open" /\ pc \in InWithBlock
    /\ pc' = "crashed"
    /\ err' = IF pc = "gen" THEN "MemoryError" ELSE "OSError"
    /\ fstate' = "closed"
    /\ UNCHANGED <<conf, ctrs, fem, sph, warned, f>>

\* f.write("*KEYWORD\n")
WriteKeyword ==
    /\ pc = "w_keyword"
    /\ f' = Append(f, Marker("*KEYWORD"))
    /\ pc' = "w_node"
    /\ UNCHANGED <<conf, err, ctrs, fem, sph, warned, fstate>>

\* fem_box_mesh.py line 139: f.write("*NODE\n")
FemBoxNodeMarker ==
    /\ prog = "fem_box" /\ pc = "w_node"
    /\ f' = Append(f, Marker("*NODE"))
    /\ pc' = "w_nodes"
    /\ UNCHANGED <<conf, err, ctrs, fem, sph, warned, fstate>>

\* fem_sphere_generate.py lines 111-117: f.write("*NODE\n"), nid_counter = start_nid
HexSphereNodeMarker ==
    /\ prog = "fem_sphere" /\ pc = "w_node"
    /\ f' = Append(f, Marker("*NODE"))
    /\ current_nid' = cfg.start_nid
    /\ idx' = FirstIdx(nodes_per_side, nodes_per_side, nodes_per_side)
    /\ pc' = "w_nodes"
    /\ UNCHANGED <<conf, err, current_eid, current_nid_ref, wi, fem, sph, warned,
                   fstate>>

\* sph_box_generate.py lines 64-67: f.write("*NODE\n"), current_nid, coords = []
SphBoxNodeMarker ==
    /\ prog = "sph_box" /\ pc = "w_node"
    /\ f' = Append(f, Marker("*NODE"))
    /\ current_nid' = cfg.start_nid
    /\ coords' = <<>>
    /\ idx' = FirstIdx(cfg.num_x, cfg.num_y, cfg.num_z)
    /\ pc' = "gen"
    /\ UNCHANGED <<conf, err, current_eid, current_nid_ref, wi, fem, sph_coords,
                   particle_mass, sph_mass, warned, fstate>>

\* sph_sphere_generate.py lines 99-100: f.write("*NODE\n"), current_nid = start_nid
SphSphereNodeMarker ==
    /\ prog = "sph_sphere" /\ pc = "w_node"
    /\ f' = Append(f, Marker("*NODE"))
    /\ current_nid' = cfg.start_nid
    /\ wi' = 0
    /\ pc' = "w_nodes"
    /\ UNCHANGED <<conf, err, idx, current_eid, current_nid_ref, fem, sph, warned,
                   fstate>>

\* sph_geo_generate.py lines 151-155: f.write("*NODE\n"), the box's nid is set
GeoNodeMarker ==
    /\ prog = "sph_geo" /\ pc = "w_node"
    /\ f' = Append(f, Marker("*NODE"))
    /\ current_nid' = IF cfg.box.enable THEN cfg.box.start_nid ELSE current_nid
    /\ wi' = 0
    /\ pc' = "w_nodes"
    /\ UNCHANGED <<conf, err, idx, current_eid, current_nid_ref, fem, sph, warned,
                   fstate>>

\* fem_box_mesh.py line 143: f.write("*ELEMENT_SOLID\n")
FemBoxElementMarker ==
    /\ prog = "fem_box" /\ pc = "w_elem"
    /\ f' = Append(f, Marker("*ELEMENT_SOLID"))
    /\ pc' = "w_elems"
    /\ UNCHANGED <<conf, err, ctrs, fem, sph, warned, fstate>>

\* fem_sphere_generate.py line 137: f.write("*ELEMENT_SOLID\n")
HexSphereElementMarker ==
    /\ prog = "fem_sphere" /\ pc = "w_elem"
    /\ f' = Append(f, Marker("*ELEMENT_SOLID"))
    /\ wi' = 0
    /\ pc' = "w_elems"
    /\ UNCHANGED <<conf, err, idx, current_nid, current_eid, current_nid_ref, fem,
                   sph, warned, fstate>>

\* the counters set and the marker line forgotten
SphElementMarkerMissing ==
    /\ prog \in {"sph_box", "sph_sphere"} /\ pc = "w_elem"
    /\ current_eid' = cfg.start_eid
    /\ current_nid_ref' = cfg.start_nid
    /\ wi' = 0
    /\ pc' = "w_elems"
    /\ UNCHANGED <<conf, err, idx, current_nid, fem, sph, warned, io>>

\* sph_box_generate.py lines 87-89, sph_sphere_generate.py lines 106-108:
\* f.write("*ELEMENT_SPH\n"), current_eid = start_eid, current_nid_ref = start_nid
SphElementMarker ==
    /\ prog \in {"sph_box", "sph_sphere"} /\ pc = "w_elem"
    /\ f' = Append(f, Marker("*ELEMENT_SPH"))
    /\ current_eid' = cfg.start_eid
    /\ current_nid_ref' = cfg.start_nid
    /\ wi' = 0
    /\ pc' = "w_elems"
    /\ UNCHANGED <<conf, err, idx, current_nid, fem, sph, warned, fstate>>

\* sph_geo_generate.py lines 168-174: f.write("*ELEMENT_SPH\n"), the box's eid, nid
GeoElementMarker ==
    /\ prog = "sph_geo" /\ pc = "w_elem"
    /\ f' = Append(f, Marker("*ELEMENT_SPH"))
    /\ current_eid' = IF cfg.box.enable THEN cfg.box.start_eid ELSE current_eid
    /\ current_nid_ref' = IF cfg.box.enable THEN cfg.box.start_nid ELSE current_nid_ref
    /\ wi' = 0
    /\ pc' = "w_elems"
    /\ UNCHANGED <<conf, err, idx, current_nid, fem, sph, warned, fstate>>

\* f.write("*END\n")
WriteEnd ==
    /\ pc = "w_end"
    /\ f' = Append(f, Marker("*END"))
    /\ pc' = "close"
    /\ UNCHANGED <<conf, err, ctrs, fem, sph, warned, fstate>>

\* the with-block ends: the file is closed
CloseFile ==
    /\ pc = "close"
    /\ fstate' = "closed"
    /\ pc' = "done"
    /\ UNCHANGED <<conf, err, ctrs, fem, sph, warned, f>>

----------------------------------------------------------------------------
(* The specification. *)

Configs ==
    ({"fem_box"} \X FemBoxCfgs) \cup ({"fem_sphere"} \X HexSphereCfgs)
    \cup ({"sph_box"} \X SphBoxCfgs) \cup ({"sph_sphere"} \X SphSphereCfgs)
    \cup ({"sph_geo"} \X GeoCfgs)

Init ==
    /\ \E c \in Configs : prog = c[1] /\ cfg = c[2]
    /\ pc = "start"
    /\ err = "none"
    /\ idx = End
    /\ current_nid = 0
    /\ current_eid = 0
    /\ current_nid_ref = 0
    /\ node_map = <<>>
    /\ node_lines = <<>>
    /\ element_lines = <<>>
    /\ coords = <<>>
    /\ sph_coords = <<>>
    /\ particle_mass = <<0, 1>>
    /\ sph_mass = <<0, 1>>
    /\ wi = 0
    /\ warned = FALSE
    /\ fstate = "unopened"
    /\ f = <<>>

Next ==
    \/ FemBoxSetup \/ FemBoxNode \/ FemBoxNodesDone \/ FemBoxElem \/ FemBoxElemsDone
    \/ FemBoxNodeMarker \/ FemBoxWriteNodes \/ FemBoxElementMarker \/ FemBoxWriteElems
    \/ HexSphereSetup \/ HexSphereNode \/ HexSphereNodesDone \/ HexSphereElem
    \/ HexSphereElemsDone \/ HexSphereNodeMarker \/ HexSphereWriteNode
    \/ HexSphereWriteNodesDone \/ HexSphereElementMarker \/ HexSphereWriteElem
    \/ HexSphereWriteElemsDone
    \/ SphBoxSetup \/ SphBoxNodeMarker \/ SphBoxCoord \/ SphBoxCoordsDone
    \/ SphBoxWriteNode \/ SphBoxWriteNodesDone \/ SphBoxWriteElem
    \/ SphBoxWriteElemsDone
    \/ SphSphereGenerate \/ SphSphereNodeMarker \/ SphSphereWriteNode
    \/ SphSphereWriteNodesDone \/ SphSphereWriteElem \/ SphSphereWriteElemsDone
    \/ SphElementMarker
    \/ GeoCalcBox \/ GeoCalcSphere \/ GeoCheckOverlap \/ GeoNodeMarker
    \/ GeoWriteBoxNode \/ GeoBoxNodesDone \/ GeoWriteSphNode \/ GeoSphNodesDone
    \/ GeoElementMarker \/ GeoWriteBoxElem \/ GeoBoxElemsDone \/ GeoWriteSphElem
    \/ GeoSphElemsDone
    \/ OpenFile \/ WriteKeyword \/ WriteEnd \/ CloseFile
    \/ OpenFails \/ WriteFails

Spec == Init /\ [][Next]_vars

----------------------------------------------------------------------------
(* Properties. *)

FemProgs == {"fem_box", "fem_sphere"}

\* the sample counts (NX, NY, NZ) of the node grid
NodeGrid ==
    CASE prog = "fem_box" -> <<num_node_x, num_node_y, num_node_z>>
      [] prog = "fem_sphere" -> <<nodes_per_side, nodes_per_side, nodes_per_side>>
      [] prog = "sph_box" -> <<cfg.num_x, cfg.num_y, cfg.num_z>>
      [] OTHER -> <<0, 0, 0>>

\* the element counts of a FEM grid
ElemGrid ==
    CASE prog = "fem_box" -> <<cfg.num_elem_x, cfg.num_elem_y, cfg.num_elem_z>>
      [] prog = "fem_sphere" ->
            <<elements_per_side, elements_per_side, elements_per_side>>
      [] OTHER -> <<0, 0, 0>>

GridSet(g) == (0..(g[1] - 1)) \X (0..(g[2] - 1)) \X (0..(g[3] - 1))

GridSize(g) == IF g[1] > 0 /\ g[2] > 0 /\ g[3] > 0 THEN g[1] * g[2] * g[3] ELSE 0

\* start + i*(NY*NZ) + j*NZ + k
IdFormula(start, ix, g) == start + ix[1] * (g[2] * g[3]) + ix[2] * g[3] + ix[3]

\* the index whose bodies are preceded by m bodies, for m < NX*NY*NZ
Unrank(m, g) == <<m \div (g[2] * g[3]), (m \div g[3]) % g[2], m % g[3]>>

\* the offset of a node: 0 at the corners of the cells, 1 (a half) at their centres
Off2 == IF prog = "sph_box" THEN 1 ELSE 0

\* the per-axis counts a box divides its extents by
BoxCounts ==
    IF prog = "fem_box" THEN <<cfg.num_elem_x, cfg.num_elem_y, cfg.num_elem_z>>
    ELSE <<cfg.num_x, cfg.num_y, cfg.num_z>>

\* the record of the box node of index ix
BoxNodeAt(ix) ==
    NodeRec(IdFormula(cfg.start_nid, ix, NodeGrid),
            Pos(cfg.x[1], cfg.x[2], BoxCounts[1], ix[1], Off2),
            Pos(cfg.y[1], cfg.y[2], BoxCounts[2], ix[2], Off2),
            Pos(cfg.z[1], cfg.z[2], BoxCounts[3], ix[3], Off2))

Count(s, type) == Len(SelectSeq(s, LAMBDA r : r.t = type))

Records(s, type) == SelectSeq(s, LAMBDA r : r.t = type)

Distinct(s) == \A a, b \in 1..Len(s) : a # b => s[a] # s[b]

\* C1: in fem_box, fem_sphere and sph_box the node of logical index (i,j,k)
\* gets the ID start_nid + i*(NY*NZ) + j*NZ + k, so no two indices share an ID:
\* every entry of the index map, every buffered node record (matched to its index
\* by its coordinates) and the counter before each body agree with the formula,
\* and once the loop is over every index of the grid has its ID.
C1_NodeIdFormula ==
    /\ prog \in FemProgs =>
         /\ \A ix \in DOMAIN node_map :
               /\ ix \in GridSet(NodeGrid)
               /\ node_map[ix] = IdFormula(cfg.start_nid, ix, NodeGrid)
         /\ (pc = "nodes" /\ idx # End) =>
               current_nid = IdFormula(cfg.start_nid, idx, NodeGrid)
         /\ (pc = "nodes" /\ idx = End) =>
               /\ DOMAIN node_map = GridSet(NodeGrid)
               /\ \A a, b \in DOMAIN node_map : a # b => node_map[a] # node_map[b]
    /\ prog = "fem_box" =>
         \A n \in 1..Len(node_lines) : node_lines[n] = BoxNodeAt(Unrank(n - 1, NodeGrid))
    /\ prog = "sph_box" =>
         /\ \A n \in 1..Len(coords) : coords[n] = BoxNodeAt(Unrank(n - 1, NodeGrid))
         /\ (pc = "gen" /\ idx # End) =>
               current_nid = IdFormula(cfg.start_nid, idx, NodeGrid)
         /\ (pc = "gen" /\ idx = End) =>
               /\ Len(coords) = GridSize(NodeGrid)
               /\ \A a, b \in 1..Len(coords) : a # b => coords[a].id # coords[b].id

\* a 2 x 3 x 2 node grid is numbered: index (1,2,1) has the last of its 12 IDs
C1_Witness ==
    /\ prog = "fem_box" /\ pc = "elems"
    /\ NodeGrid = <<2, 3, 2>>
    /\ <<1, 2, 1>> \in DOMAIN node_map
    /\ node_map[<<1, 2, 1>>] = cfg.start_nid + 11

\* the corner order of the *ELEMENT_SOLID record of cell (i,j,k)
HexOrder(ix) ==
    << <<ix[1], ix[2], ix[3]>>,             <<ix[1] + 1, ix[2], ix[3]>>,
       <<ix[1] + 1, ix[2] + 1, ix[3]>>,     <<ix[1], ix[2] + 1, ix[3]>>,
       <<ix[1], ix[2], ix[3] + 1>>,         <<ix[1] + 1, ix[2], ix[3] + 1>>,
       <<ix[1] + 1, ix[2] + 1, ix[3] + 1>>, <<ix[1], ix[2] + 1, ix[3] + 1>> >>

\* a step appends at most one element, only in the element loop, with the IDs of
\* the nodes at HexOrder(idx) in that order; no element built earlier changes
C2_Step ==
    prog \in FemProgs =>
        /\ \A n \in 1..Len(element_lines) :
              n <= Len(element_lines') /\ element_lines'[n] = element_lines[n]
        /\ Len(element_lines') > Len(element_lines) =>
              /\ pc = "elems"
              /\ Len(element_lines') = Len(element_lines) + 1
              /\ \A c \in 1..8 :
                    element_lines'[Len(element_lines')].n[c] = node_map[HexOrder(idx)[c]]

\* the *ELEMENT_SOLID records of the file are the elements built, in their order
C2_FileKeepsOrder ==
    prog \in FemProgs =>
        LET w == Records(f, "solid") IN
          /\ Len(w) <= Len(element_lines)
          /\ \A n \in 1..Len(w) : w[n] = element_lines[n]
          /\ pc \in {"w_end", "close", "done"} => Len(w) = Len(element_lines)

\* C2: every hexahedral element of fem_box and fem_sphere built for cell (i,j,k)
\* lists the IDs of the nodes at (i,j,k), (i+1,j,k), (i+1,j+1,k), (i,j+1,k),
\* (i,j,k+1), (i+1,j,k+1), (i+1,j+1,k+1), (i,j+1,k+1) in that order, and the order
\* is the same in the *ELEMENT_SOLID record written.
C2_CornerOrder == [][C2_Step]_vars /\ []C2_FileKeepsOrder

\* the 2 x 2 x 2 box is written: its first element is cell (0,0,0) of a 3 x 3 x 3
\* node grid numbered from 11
C2_Witness ==
    /\ prog = "fem_box" /\ pc = "done"
    /\ Count(f, "solid") = 8
    /\ Records(f, "solid")[1].n = <<11, 20, 23, 14, 12, 21, 24, 15>>

AllPositive(g) == g[1] > 0 /\ g[2] > 0 /\ g[3] > 0

\* the eight IDs are pairwise distinct and lie in [start_nid, start_nid + nodes)
HexIdsValid(rec) ==
    /\ \A a, b \in 1..8 : a # b => rec.n[a] # rec.n[b]
    /\ \A a \in 1..8 :
          rec.n[a] >= cfg.start_nid /\ rec.n[a] < cfg.start_nid + GridSize(NodeGrid)

\* C3: in fem_box and fem_sphere with positive element counts, the eight node IDs
\* of every element (built or written) are pairwise distinct and lie in
\* [start_nid, start_nid + node count); every index looked up by the element loop
\* is an index of a created node (no KeyError), and the element loop runs over
\* exactly the node-grid extent minus 1 on each axis.
C3_HexIdsInRange ==
    (prog \in FemProgs /\ AllPositive(ElemGrid)) =>
        /\ err # "KeyError"
        /\ \A n \in 1..Len(element_lines) : HexIdsValid(element_lines[n])
        /\ \A n \in 1..Len(f) : f[n].t = "solid" => HexIdsValid(f[n])
        /\ (pc = "elems" /\ idx # End) =>
              /\ \A a \in 1..3 : idx[a] >= 0 /\ idx[a] < NodeGrid[a] - 1
              /\ \A c \in 1..8 : HexOrder(idx)[c] \in DOMAIN node_map
        /\ (pc = "elems" /\ idx = End) =>
              Len(element_lines)
                = (NodeGrid[1] - 1) * (NodeGrid[2] - 1) * (NodeGrid[3] - 1)

\* the sphere of density 1 is written with its 8 elements
C3_Witness ==
    /\ prog = "fem_sphere" /\ pc = "done" /\ cfg.density = 1
    /\ Count(f, "solid") = 8

\* C4: with positive resolution (nx, ny, nz), fem_box writes (nx+1)*(ny+1)*(nz+1)
\* node records and nx*ny*nz element records, sph_box writes nx*ny*nz node
\* records and nx*ny*nz particle records, and calculate_box_particles returns
\* nx*ny*nz coordinates.
C4_BoxCounts ==
    /\ (prog = "fem_box" /\ pc = "done" /\ AllPositive(BoxCounts)) =>
          /\ Count(f, "node")
               = (cfg.num_elem_x + 1) * (cfg.num_elem_y + 1) * (cfg.num_elem_z + 1)
          /\ Count(f, "solid") = cfg.num_elem_x * cfg.num_elem_y * cfg.num_elem_z
    /\ (prog = "sph_box" /\ pc = "done" /\ AllPositive(BoxCounts)) =>
          /\ Count(f, "node") = cfg.num_x * cfg.num_y * cfg.num_z
          /\ Count(f, "sph") = cfg.num_x * cfg.num_y * cfg.num_z
    /\ (prog = "sph_geo" /\ pc \notin {"start", "crashed"} /\ cfg.box.enable
          /\ cfg.box.num_x > 0 /\ cfg.box.num_y > 0 /\ cfg.box.num_z > 0) =>
          Len(coords) = cfg.box.num_x * cfg.box.num_y * cfg.box.num_z

\* sph_box has written a 2 x 2 x 2 box: 8 node records, 8 particle records
C4_Witness ==
    /\ prog = "sph_box" /\ pc = "done"
    /\ cfg.num_x = 2 /\ cfg.num_y = 2 /\ cfg.num_z = 2
    /\ Count(f, "node") = 8 /\ Count(f, "sph") = 8

\* the sphere region of the run, its emitted samples, and whether they are computed
SphereCfg == IF prog = "sph_sphere" THEN cfg ELSE cfg.sphere

EmittedSphere == IF prog = "sph_sphere" THEN coords ELSE sph_coords

SphereGenerated ==
    \/ prog = "sph_sphere" /\ pc \notin {"start", "crashed"}
    \/ prog = "sph_geo" /\ cfg.sphere.enable /\ pc \notin {"start", "calc_sphere", "crashed"}

\* (x - cx)^2 + (y - cy)^2 + (z - cz)^2 <= radius^2 for the sample p = <<x, y, z>>
DistSqWithin(p, s) ==
    LET dx == p[1][1] - s.cx * p[1][2]
        dy == p[2][1] - s.cy * p[2][2]
        dz == p[3][1] - s.cz * p[3][2]
        qx == p[1][2] * p[1][2]
        qy == p[2][2] * p[2][2]
        qz == p[3][2] * p[3][2]
    IN  dx * dx * qy * qz + dy * dy * qx * qz + dz * dz * qx * qy
          <= s.radius * s.radius * qx * qy * qz

\* the cell-centre samples of the bounding-cube grid within radius^2 of the centre
FullTestSet(s) ==
    {p \in {<<SphereX(s, g[1]), SphereY(s, g[2]), SphereZ(s, g[3])>> :
               g \in GridSet(<<s.num_x_grid, s.num_y_grid, s.num_z_grid>>)} :
        DistSqWithin(p, s)}

MaskIsFullTest ==
    /\ {EmittedSphere[n] : n \in 1..Len(EmittedSphere)} = FullTestSet(SphereCfg)
    /\ \A n \in 1..Len(EmittedSphere) :
          SphereCfg.radius >= 0 /\ DistSqWithin(EmittedSphere[n], SphereCfg)

\* C5: in sph_sphere and calculate_sphere_particles the emitted particles are exactly
\* the cell-centre samples of the bounding-cube grid whose squared distance to the
\* centre is at most radius^2 (the X-slice and XY-column skips drop nothing the
\* three-axis test accepts), and none lies farther than radius from the centre.
C5_MaskIsFullTest == SphereGenerated => MaskIsFullTest

\* the same for every radius >= 0: the skips drop an accepted sample only when
\* the radius is negative
MaskIsFullTestForRadius == (SphereGenerated /\ SphereCfg.radius >= 0) => MaskIsFullTest

\* the skip taken: a 4 x 4 x 4 grid loses corner columns and keeps 32 samples
MaskSkipsColumns ==
    /\ prog = "sph_sphere" /\ pc = "open" /\ cfg.radius = 2
    /\ cfg.num_x_grid = 4 /\ cfg.num_y_grid = 4 /\ cfg.num_z_grid = 4
    /\ Len(coords) = 32

GeoAfterCheck == prog = "sph_geo" /\ pc \notin {"start", "calc_sphere", "check", "crashed"}

\* the two ranges [s1, s1 + n1) and [s2, s2 + n2) share an ID
RangesShare(s1, n1, s2, n2) == \E id \in s1..(s1 + n1 - 1) : id >= s2 /\ id < s2 + n2

NodeRangesShare ==
    RangesShare(cfg.box.start_nid, Len(coords), cfg.sphere.start_nid, Len(sph_coords))

ElementRangesShare ==
    RangesShare(cfg.box.start_eid, Len(coords), cfg.sphere.start_eid, Len(sph_coords))

\* C6: the overlap check of sph_geo flags an intersection of the two regions' ID
\* ranges in the node-ID namespace and, independently, in the element-ID namespace:
\* two enabled regions whose element-ID ranges [start_eid, start_eid + count)
\* intersect are flagged, also when their node-ID ranges are disjoint.
C6_ElementOverlapFlagged ==
    (GeoAfterCheck /\ cfg.box.enable /\ cfg.sphere.enable) =>
        /\ NodeRangesShare => warned
        /\ ElementRangesShare => warned

\* the node-ID half of the check alone
NodeOverlapFlagged ==
    (GeoAfterCheck /\ cfg.box.enable /\ cfg.sphere.enable /\ NodeRangesShare) => warned

\* C7: with both regions enabled the node-ID diagnostic is raised if and only if the
\* half-open ranges [start_nid, start_nid + emitted node count) of the two regions
\* share an ID (overlapping ranges are flagged, touching ranges are not), and when
\* no diagnostic is raised the node IDs of the written Document are pairwise distinct.
C7_NodeOverlapIff ==
    (GeoAfterCheck /\ cfg.box.enable /\ cfg.sphere.enable) =>
        /\ warned <=> NodeRangesShare
        /\ (pc = "done" /\ ~warned) =>
              LET w == Records(f, "node") IN
                \A a, b \in 1..Len(w) : a # b => w[a].id # w[b].id

\* the same when both regions emit a node: the test is exact for non-empty ranges
NodeOverlapIffNonEmpty ==
    (GeoAfterCheck /\ cfg.box.enable /\ cfg.sphere.enable
       /\ Len(coords) > 0 /\ Len(sph_coords) > 0) =>
        /\ warned <=> NodeRangesShare
        /\ (pc = "done" /\ ~warned) =>
              LET w == Records(f, "node") IN
                \A a, b \in 1..Len(w) : a # b => w[a].id # w[b].id

\* touching ranges [1, 3) and [3, 5) pass unflagged
TouchingNotFlagged ==
    /\ GeoAfterCheck /\ cfg.box.enable /\ cfg.sphere.enable /\ ~warned
    /\ Len(coords) = 2 /\ Len(sph_coords) = 2
    /\ cfg.sphere.start_nid = 1 /\ cfg.box.start_nid = 3

\* the particles a region is configured to have: none when it is disabled
ConfiguredBox == IF cfg.box.enable THEN BoxParticles(cfg.box) ELSE <<>>

ConfiguredSphere == IF cfg.sphere.enable THEN SphereParticles(cfg.sphere) ELSE <<>>

\* the node records of a region, numbered from its configured start_nid
RegionNodes(r, list) ==
    [n \in 1..Len(list) |->
        NodeRec(r.start_nid + n - 1, list[n][1], list[n][2], list[n][3])]

\* the particle records of a region, numbered from its configured start_eid, start_nid
RegionParticles(r, list, mass) ==
    [n \in 1..Len(list) |-> SphRec(r.start_eid + n - 1, r.part_id, r.start_nid + n - 1, mass)]

\* the Document of the composer as its configuration alone determines it
GeoDocument ==
    <<Marker("*KEYWORD"), Marker("*NODE")>>
      \o RegionNodes(cfg.box, ConfiguredBox)
      \o RegionNodes(cfg.sphere, ConfiguredSphere)
      \o <<Marker("*ELEMENT_SPH")>>
      \o RegionParticles(cfg.box, ConfiguredBox, BoxMass(cfg.box))
      \o RegionParticles(cfg.sphere, ConfiguredSphere, SphereMass(cfg.sphere))
      \o <<Marker("*END")>>

\* C8: an ID collision is non-fatal and changes nothing in the output: once the
\* overlap diagnostic is raised the run ends with no error but an I/O failure
\* and can always take its next step until the file is closed, what is written
\* so far is at every moment a prefix of the Document the configuration determines (all markers, all node
\* and particle records of both regions, every ID as configured: nothing remapped,
\* sorted or removed), and the closed file holds that whole Document, whether or
\* not the diagnostic was raised.
C8_CollisionNonFatal ==
    prog = "sph_geo" =>
        /\ warned => /\ err \in {"none", "OSError"}
                     /\ pc = "crashed" => err = "OSError"
                     /\ pc \notin {"done", "crashed"} => ENABLED (Next /\ pc' # "crashed")
        /\ fstate # "unopened" =>
              /\ Len(f) <= Len(GeoDocument)
              /\ f = SubSeq(GeoDocument, 1, Len(f))
        /\ pc = "done" => fstate = "closed" /\ f = GeoDocument

\* a collision written out: both regions number their two nodes from 2, the
\* diagnostic is raised and the closed file holds both pairs of records
C8_Witness ==
    /\ prog = "sph_geo" /\ pc = "done" /\ warned
    /\ cfg.box.start_nid = 2 /\ cfg.sphere.start_nid = 2
    /\ Len(coords) = 2 /\ Len(sph_coords) = 2
    /\ Len(f) = 12
    /\ f[3].id = 2 /\ f[4].id = 3 /\ f[5].id = 2 /\ f[6].id = 3

\* the place of a record in the section order
Stage(r) ==
    CASE r = Marker("*KEYWORD") -> 1
      [] r = Marker("*NODE") -> 2
      [] r.t = "node" -> 3
      [] r = Marker(IF prog \in FemProgs THEN "*ELEMENT_SOLID" ELSE "*ELEMENT_SPH") -> 4
      [] r.t = (IF prog \in FemProgs THEN "solid" ELSE "sph") -> 5
      [] r = Marker("*END") -> 6
      [] OTHER -> 0

\* the steps of the section order: a marker is never repeated, records repeat
StageSteps ==
    {<<1, 2>>, <<2, 3>>, <<2, 4>>, <<3, 3>>, <<3, 4>>, <<4, 5>>, <<4, 6>>, <<5, 5>>, <<5, 6>>}

SectionOrder(s) ==
    /\ Len(s) > 0 => Stage(s[1]) = 1
    /\ \A a \in 1..(Len(s) - 1) : <<Stage(s[a]), Stage(s[a + 1])>> \in StageSteps

\* the number of nodes the run has generated
GeneratedNodes ==
    CASE prog = "fem_box" -> Len(node_lines)
      [] prog = "fem_sphere" -> Cardinality(DOMAIN node_map)
      [] prog = "sph_geo" -> Len(coords) + Len(sph_coords)
      [] OTHER -> Len(coords)

\* the number of elements or particles the run has to write: sph_box counts its
\* particles by the product of its resolutions, the others by what they generated
GeneratedElements ==
    CASE prog \in FemProgs -> Len(element_lines)
      [] prog = "sph_geo" -> Len(coords) + Len(sph_coords)
      [] prog = "sph_box" -> IF total_particles > 0 THEN total_particles ELSE 0
      [] OTHER -> Len(coords)

ElemId(r) == r.eid

NodeId(r) == r.id

\* the records a..b of w have strictly increasing IDs
Increasing(w, a, b, Id(_)) == \A n \in a..(b - 1) : Id(w[n]) < Id(w[n + 1])

\* the records of w: those of the first region before those of the second, and
\* strictly increasing IDs within each
RegionOrder(w, first, Id(_)) ==
    LET m == IF Len(w) < first THEN Len(w) ELSE first IN
      /\ Increasing(w, 1, m, Id)
      /\ Increasing(w, m + 1, Len(w), Id)

\* C9: what a run has written follows, at every moment, the section order
\* *KEYWORD, *NODE, node records, one element marker (*ELEMENT_SOLID in the FEM
\* generators, *ELEMENT_SPH in the SPH ones), element or particle records, *END,
\* no marker twice; the closed file ends with *END and holds every generated node
\* and element; in the composer the box's node records precede the sphere's, the
\* particle records keep that order, and within a region (in the other generators:
\* within the file) the IDs of the records strictly increase.
C9_SectionOrder ==
    /\ SectionOrder(f)
    /\ pc = "done" =>
          /\ f[Len(f)] = Marker("*END")
          /\ Count(f, "marker") = 4
          /\ Count(f, "node") = GeneratedNodes
          /\ Count(f, "solid") + Count(f, "sph") = GeneratedElements
    /\ prog = "sph_geo" =>
          LET w == Records(f, "node")
              e == Records(f, "sph")
              both == coords \o sph_coords
          IN  /\ \A n \in 1..Len(w) : <<w[n].x, w[n].y, w[n].z>> = both[n]
              /\ \A n \in 1..Len(e) :
                    e[n].pid = IF n <= Len(coords) THEN cfg.box.part_id
                               ELSE cfg.sphere.part_id
              /\ RegionOrder(w, Len(coords), NodeId)
              /\ RegionOrder(e, Len(coords), ElemId)
    /\ prog # "sph_geo" =>
          /\ Increasing(Records(f, "node"), 1, Count(f, "node"), NodeId)
          /\ Increasing(Records(f, "solid") \o Records(f, "sph"), 1,
                        Count(f, "solid") + Count(f, "sph"), ElemId)

\* a composed Document whose box is numbered after its sphere: the node IDs
\* 3, 4, 1, 2 increase within each region and not across them
C9_Witness ==
    /\ prog = "sph_geo" /\ pc = "done"
    /\ Len(f) = 12
    /\ f[3].id = 3 /\ f[4].id = 4 /\ f[5].id = 1 /\ f[6].id = 2
    /\ f[8].pid = cfg.box.part_id /\ f[11].pid = cfg.sphere.part_id

\* the last ID of a region of count records numbered from start
Overflows(start, count) == count > 0 /\ start + count - 1 > MaxFieldId

NonPositive(g) == g[1] <= 0 \/ g[2] <= 0 \/ g[3] <= 0

Degenerate(c) == c.x[1] >= c.x[2] \/ c.y[1] >= c.y[2] \/ c.z[1] >= c.z[2]

SphereGridOf(s) == <<s.num_x_grid, s.num_y_grid, s.num_z_grid>>

BoxError(b) ==
    LET g == <<b.num_x, b.num_y, b.num_z>> IN
      \/ NonPositive(g)
      \/ Degenerate(b)
      \/ Overflows(b.start_nid, GridSize(g))
      \/ Overflows(b.start_eid, GridSize(g))

SphereError(s) ==
    \/ NonPositive(SphereGridOf(s))
    \/ s.radius <= 0
    \/ Overflows(s.start_nid, Cardinality(FullTestSet(s)))
    \/ Overflows(s.start_eid, Cardinality(FullTestSet(s)))

\* a zero or negative resolution, degenerate extents (for a sphere: a radius
\* that is not positive), or an ID beyond the field width
ConfigError ==
    CASE prog = "fem_box" ->
            \/ NonPositive(ElemGrid)
            \/ Degenerate(cfg)
            \/ Overflows(cfg.start_nid, GridSize(NodeGrid))
            \/ Overflows(cfg.start_eid, GridSize(ElemGrid))
      [] prog = "fem_sphere" ->
            \/ cfg.density <= 0
            \/ cfg.radius <= 0
            \/ Overflows(cfg.start_nid, GridSize(NodeGrid))
            \/ Overflows(cfg.start_eid, GridSize(ElemGrid))
      [] prog = "sph_box" -> BoxError(cfg)
      [] prog = "sph_sphere" -> SphereError(cfg)
      [] OTHER -> \/ cfg.box.enable /\ BoxError(cfg.box)
                  \/ cfg.sphere.enable /\ SphereError(cfg.sphere)

\* C10: a configuration error (a zero or negative resolution on an axis,
\* degenerate extents, an ID that would exceed the field width) makes the run
\* fail before any generation work and before the output file is opened: such a
\* run is only ever at its start or failed, its file never opened, and it never
\* ends with a Document written.
C10_ConfigErrorFailsFast ==
    ConfigError => /\ pc \in {"start", "crashed"}
                   /\ fstate = "unopened"
                   /\ f = <<>>

\* the one configuration error that does stop a run before the file is opened:
\* a zero resolution, by the division it causes
ZeroCountFailsFast ==
    LET g == CASE prog = "fem_box" -> ElemGrid
               [] prog = "fem_sphere" -> ElemGrid
               [] prog = "sph_box" -> NodeGrid
               [] prog = "sph_sphere" -> SphereGridOf(cfg)
               [] OTHER -> <<1, 1, 1>>
    IN  (g[1] = 0 \/ g[2] = 0 \/ g[3] = 0) => fstate = "unopened" /\ f = <<>>

\* a run with a negative resolution that ends with a Document written
NegativeResolutionWritten ==
    /\ prog = "fem_box" /\ pc = "done" /\ fstate = "closed"
    /\ cfg.num_elem_x = -1
    /\ Len(f) = 4

\* every integer field of the record r takes exactly FieldWidth characters
FieldsAligned(r) ==
    /\ \A k \in 1..Len(IntFields(r)) : IntChars(IntFields(r)[k]) = FieldWidth
    /\ r.t = "solid" => Len(IntFields(r)) = 10 /\ SumChars(IntFields(r)) = 10 * FieldWidth

\* C11: every integer field of every written record (node ID, element ID, part ID,
\* referenced node IDs) takes exactly 8 characters, so an *ELEMENT_SOLID record
\* is 80 characters long and the ID field of a *NODE or *ELEMENT_SPH record 8;
\* a configuration whose start ID plus entity count gives an ID of more than 8
\* digits is rejected (its file is never opened) and not written with a wider field.
C11_FieldWidths == \A n \in 1..Len(f) : FieldsAligned(f[n])

\* the same for the configurations without an error: their fields are all aligned
FieldWidthsOfValidConfigs == ~ConfigError => \A n \in 1..Len(f) : FieldsAligned(f[n])

\* a node record written with a 9-character ID field
WidenedFieldWritten ==
    /\ prog = "fem_box" /\ pc = "done"
    /\ \E n \in 1..Len(f) : f[n].t = "node" /\ IntChars(f[n].id) = FieldWidth + 1

\* the file holds a whole Document: its last line is *END
CompleteDocument == Len(f) > 0 /\ f[Len(f)] = Marker("*END")

\* C12: a failure of the output part-way is surfaced to the caller (the run ends
\* with the error) and leaves no partly written Document at the output path: at
\* the end of a run the path holds a complete Document ending in *END or nothing
\* this run wrote.
C12_NoPartialDocument ==
    /\ err = "OSError" => pc = "crashed"
    /\ pc \in {"done", "crashed"} => f = <<>> \/ CompleteDocument

\* the failure is surfaced: an I/O error always ends the run, and a run that
\* ends normally has written a complete Document
IOFailureSurfaced ==
    /\ err = "OSError" => pc = "crashed"
    /\ pc = "done" => err = "none" /\ CompleteDocument

\* a run ended by a write failure with a Document cut after its first node record
PartialDocumentLeft ==
    /\ pc = "crashed" /\ err = "OSError" /\ fstate = "closed"
    /\ Len(f) = 3 /\ f[3].t = "node"

\* the file's life: opened from unopened, closed from open, and nothing else;
\* the content changes only by appending to the open file
C13_Step ==
    /\ fstate' # fstate =>
          \/ fstate = "unopened" /\ fstate' = "open"
          \/ fstate = "open" /\ fstate' = "closed"
    /\ f' # f =>
          /\ fstate = "open" /\ fstate' = "open"
          /\ Len(f') > Len(f) /\ SubSeq(f', 1, Len(f)) = f

C13_Released ==
    /\ pc \in {"done", "crashed"} => fstate \in {"unopened", "closed"}
    /\ pc = "done" => fstate = "closed"
    /\ fstate = "unopened" => f = <<>>

\* C13: in every run the output file is opened at most once, every write appends
\* to the file between that open and its close, and the file is closed on every
\* exit path: the normal end, an exception raised by a write, and an exception
\* raised by generation code that runs while the file is open.
C13_OpenOnceClosedAlways == [][C13_Step]_vars /\ []C13_Released

\* an exit by exception with the file released: the composer's write fails after
\* both regions' node records, and the file is closed
C13_Witness ==
    /\ prog = "sph_geo" /\ pc = "crashed" /\ err = "OSError"
    /\ fstate = "closed"
    /\ Len(f) = 6

\* the box region of an SPH run
BoxRegion == IF prog = "sph_geo" THEN cfg.box ELSE cfg

HasBoxRegion == prog = "sph_box" \/ (prog = "sph_geo" /\ cfg.box.enable)

\* density * (x_max - x_min) * (y_max - y_min) * (z_max - z_min)
BoxTotalMass ==
    BoxRegion.density * (BoxRegion.x[2] - BoxRegion.x[1])
      * (BoxRegion.y[2] - BoxRegion.y[1]) * (BoxRegion.z[2] - BoxRegion.z[1])

\* the particle records of the box region in the file
BoxParticleRecords == SelectSeq(f, LAMBDA r : r.t = "sph" /\ r.pid = BoxRegion.part_id)

\* the mass the box's particles are given
BoxParticleMass == particle_mass

RECURSIVE SumNum(_)
\* the sum of the numerators of the written masses of the records s
SumNum(s) == IF s = <<>> THEN 0 ELSE Fmt6e(Head(s).mass)[1] + SumNum(Tail(s))

\* the written masses of the records s share the denominator den
SameDen(s, den) == \A n \in 1..Len(s) : Fmt6e(s[n].mass)[2] = den

BoxDocumentWritten ==
    /\ HasBoxRegion /\ pc = "done"
    /\ AllPositive(<<BoxRegion.num_x, BoxRegion.num_y, BoxRegion.num_z>>)

\* C14 as stated: for a box SPH region with positive resolution the masses of the
\* emitted particles, as the Document gives them, sum to density * (x_max - x_min)
\* * (y_max - y_min) * (z_max - z_min) exactly, for every resolution, in the
\* standalone box generator and in the composer.
C14_MassSumExact ==
    BoxDocumentWritten =>
        LET w == BoxParticleRecords
            den == Fmt6e(BoxParticleMass)[2]
        IN  /\ SameDen(w, den)
            /\ SumNum(w) = BoxTotalMass * den

\* C14 amended: for a box SPH region with positive resolution the mass computed
\* for a particle, times the number of particles emitted, equals density *
\* (x_max - x_min) * (y_max - y_min) * (z_max - z_min) in exact arithmetic, in both
\* generators; every particle record carries that mass, which the Document gives
\* rounded to 7 significant digits (at most half a unit of the 7th digit off), so
\* the written masses sum to the total within count * half a unit of that digit.
C14_MassConservedToFormat ==
    BoxDocumentWritten =>
        LET w == BoxParticleRecords
            m == BoxParticleMass
            s == Scale(Abs(m[1]), Abs(m[2]), 0)
            g == <<BoxRegion.num_x, BoxRegion.num_y, BoxRegion.num_z>>
        IN  /\ Len(w) = GridSize(g)
            /\ Len(w) * m[1] = BoxTotalMass * m[2]
            /\ \A n \in 1..Len(w) : w[n].mass = m
            /\ m[1] # 0 =>
                  LET d == RoundHalfEven(s[1], s[2]) * s[2] - s[1]
                  IN  2 * Abs(d) <= s[2]
            /\ SameDen(w, Fmt6e(m)[2])

\* nine particles of mass 12/9, each written as 1.333333e+00: their sum is
\* 11.999997, not 12
C14_Witness ==
    /\ prog = "sph_box" /\ pc = "done"
    /\ cfg.num_x = 3 /\ cfg.num_y = 3 /\ cfg.num_z = 1
    /\ Len(BoxParticleRecords) = 9
    /\ Fmt6e(f[Len(f) - 1].mass) = <<1333333, 1000000>>
    /\ SumNum(BoxParticleRecords) = 11999997

\* (6 n^6) * the squared offset of the cubed-sphere coordinate p from its centre
OffsetSq6(p) == p.m * p.m * p.rad

\* (6 N^6) * the squared distance of the node record r from the sphere's centre
DistSq6(r) == OffsetSq6(r.x) + OffsetSq6(r.y) + OffsetSq6(r.z)

\* the index ix lies on a face of the node grid: some u, v, w is -1 or 1
OnBoundary(ix) ==
    \E a \in 1..3 : ix[a] = 0 \/ ix[a] = elements_per_side

Pow6(n) == n * n * n * n * n * n

\* C15: in FEM sphere generation with density N >= 1 every node whose logical
\* index lies on the boundary of the node grid (some i, j, k equal to 0 or 2N) is
\* written with coordinates around the configured centre whose squared distance
\* from it equals radius^2 in exact arithmetic; in particular for u, v, w each in
\* {-1, 0, 1} with at least one of them -1 or 1 the image on the unit sphere has
\* squared distance 1 from the origin.
C15_BoundaryOnSphere ==
    /\ (prog = "fem_sphere" /\ cfg.density >= 1) =>
          \A n \in 1..Count(f, "node") :
             LET r == f[n + 2]
                 ix == Unrank(n - 1, NodeGrid)
             IN  /\ r.x.c = cfg.cx /\ r.y.c = cfg.cy /\ r.z.c = cfg.cz
                 /\ r.x.n = cfg.density /\ r.y.n = cfg.density /\ r.z.n = cfg.density
                 /\ OnBoundary(ix) =>
                       DistSq6(r) = 6 * Pow6(cfg.density) * cfg.radius * cfg.radius
    /\ \A a, b, c \in {-1, 0, 1} :
          (a # 0 \/ b # 0 \/ c # 0) =>
             LET x == CubedSphere(0, 1, a, b, c, 1)
                 y == CubedSphere(0, 1, b, a, c, 1)
                 z == CubedSphere(0, 1, c, a, b, 1)
             IN  OffsetSq6(x) + OffsetSq6(y) + OffsetSq6(z) = 6

\* a 5 x 5 x 5 node grid of radius 2 written out: the face node (0, 1, 3), with
\* u = -1, v = -1/2, w = 1/2, lies on the sphere, the inner node (1, 1, 1)
\* strictly inside it and the middle node (2, 2, 2) at the centre
C15_Witness ==
    /\ prog = "fem_sphere" /\ pc = "done" /\ cfg.density = 2 /\ cfg.radius = 2
    /\ Count(f, "node") = 125
    /\ DistSq6(f[2 + 9]) = 6 * Pow6(2) * 4
    /\ DistSq6(f[2 + 32]) > 0 /\ DistSq6(f[2 + 32]) < 6 * Pow6(2) * 4
    /\ DistSq6(f[2 + 63]) = 0

SphProgs == {"sph_box", "sph_sphere", "sph_geo"}

\* the node records and the particle records of the two regions of a composed
\* file, and of the one region of a single-region file
FirstRegionSize == IF prog = "sph_geo" THEN Len(coords) ELSE Count(f, "node")

RegionNodeRecords(second) ==
    LET w == Records(f, "node")
        m == IF Len(w) < FirstRegionSize THEN Len(w) ELSE FirstRegionSize
    IN  IF second THEN SubSeq(w, m + 1, Len(w)) ELSE SubSeq(w, 1, m)

RegionParticleRecords(second) ==
    IF prog = "sph_geo"
      THEN SelectSeq(f, LAMBDA r : r.t = "sph" /\ r.pid = (IF second THEN cfg.sphere.part_id
                                                             ELSE cfg.box.part_id))
      ELSE IF second THEN <<>> ELSE Records(f, "sph")

RegionCfg(second) ==
    IF prog = "sph_geo" THEN (IF second THEN cfg.sphere ELSE cfg.box) ELSE cfg

\* particles e and nodes w of a region numbered from se and sn correspond one to one
OneToOne(w, e, sn, se) ==
    /\ \A n \in 1..Len(e) :
          /\ e[n].eid = se + n - 1
          /\ e[n].nid = sn + n - 1
          /\ Cardinality({m \in 1..Len(w) : w[m].id = e[n].nid}) = 1
    /\ \A m \in 1..Len(w) :
          Cardinality({n \in 1..Len(e) : e[n].nid = w[m].id}) = 1

RegionsOneToOne ==
    \A second \in BOOLEAN :
       OneToOne(RegionNodeRecords(second), RegionParticleRecords(second),
                RegionCfg(second).start_nid, RegionCfg(second).start_eid)

\* C16: in every SPH Document the particles and the nodes of a region correspond
\* one to one: the n-th particle record of the region (counting from 0) has the
\* ID start_eid + n and references the node ID start_nid + n, that node ID is
\* the ID of exactly one *NODE record of the region, and every node of the
\* region is referenced by exactly one particle of the region.
C16_ParticleNodeOneToOne == (prog \in SphProgs /\ pc = "done") => RegionsOneToOne

\* the same for the configurations without an error
OneToOneOfValidConfigs ==
    (prog \in SphProgs /\ pc = "done" /\ ~ConfigError) => RegionsOneToOne

\* a Document of sph_box with a particle and no node
ParticleWithoutNode ==
    /\ prog = "sph_box" /\ pc = "done"
    /\ Count(f, "node") = 0 /\ Count(f, "sph") = 1

\* the records w carry the IDs start, start + 1, ... in the order they are written
Contiguous(w, start, Id(_)) == \A n \in 1..Len(w) : Id(w[n]) = start + n - 1

\* the sample p comes before the sample q in X-outer, Y-middle, Z-inner order
\* (the samples of one grid share their denominators)
LexLess(p, q) ==
    \/ p[1][1] < q[1][1]
    \/ p[1][1] = q[1][1] /\ p[2][1] < q[2][1]
    \/ p[1][1] = q[1][1] /\ p[2][1] = q[2][1] /\ p[3][1] < q[3][1]

\* the node records w are the accepted samples of the sphere s, in grid order
AcceptedInGridOrder(w, s) ==
    /\ \A n \in 1..Len(w) : DistSqWithin(<<w[n].x, w[n].y, w[n].z>>, s)
    /\ \A n \in 1..(Len(w) - 1) :
          LexLess(<<w[n].x, w[n].y, w[n].z>>, <<w[n + 1].x, w[n + 1].y, w[n + 1].z>>)
    /\ pc = "done" => Len(w) = Cardinality(FullTestSet(s))

\* the element or particle records of a region
RegionElementRecords(second) ==
    IF prog \in FemProgs THEN (IF second THEN <<>> ELSE Records(f, "solid"))
    ELSE RegionParticleRecords(second)

\* C17: within one region the written node IDs and the written element or
\* particle IDs are start, start + 1, ..., start + count - 1 in the order of the
\* records, from the configured start ID, with no gap and none repeated, in every
\* generator; in the masked SPH sphere too: with a positive radius its node
\* records are the accepted grid samples and no other, each once, in X-outer,
\* Y-middle, Z-inner order of their grid indices, so a rejected sample uses no ID.
C17_ContiguousIds ==
    /\ \A second \in BOOLEAN :
          /\ Contiguous(RegionNodeRecords(second), RegionCfg(second).start_nid, NodeId)
          /\ Contiguous(RegionElementRecords(second), RegionCfg(second).start_eid, ElemId)
    /\ pc = "done" =>
          /\ Count(f, "node") = GeneratedNodes
          /\ Count(f, "solid") + Count(f, "sph") = GeneratedElements
    /\ (prog = "sph_sphere" /\ cfg.radius > 0) =>
          AcceptedInGridOrder(RegionNodeRecords(FALSE), cfg)
    /\ (prog = "sph_geo" /\ cfg.sphere.enable /\ cfg.sphere.radius > 0) =>
          AcceptedInGridOrder(RegionNodeRecords(TRUE), cfg.sphere)

\* a 4 x 4 x 4 grid masked to 32 particles, written with the node IDs 11..42
\* and the particle IDs 21..52
C17_Witness ==
    /\ prog = "sph_sphere" /\ pc = "done" /\ cfg.radius = 2
    /\ cfg.num_x_grid = 4 /\ cfg.num_y_grid = 4 /\ cfg.num_z_grid = 4
    /\ Count(f, "node") = 32
    /\ f[3].id = 11 /\ f[34].id = 42
    /\ f[36].eid = 21 /\ f[67].eid = 52

\* the coordinates the cubed-sphere formula gives the logical index ix
HexSphereCoords(ix) ==
    LET N == cfg.density
        a == ix[1] - N
        b == ix[2] - N
        c == ix[3] - N
    IN  <<CubedSphere(cfg.cx, cfg.radius, a, b, c, N),
          CubedSphere(cfg.cy, cfg.radius, b, a, c, N),
          CubedSphere(cfg.cz, cfg.radius, c, a, b, N)>>

\* the node records of the file that carry the ID id
NodeRecordsOf(id) == {n \in 1..Len(f) : f[n].t = "node" /\ f[n].id = id}

\* C18: in FEM sphere generation the pass that builds the (i,j,k) -> ID map and
\* the pass that writes the *NODE records agree: the record written for the
\* logical index (i,j,k), which carries the coordinates computed from (i,j,k),
\* carries the ID the map holds for (i,j,k); so in the closed file every node ID
\* an *ELEMENT_SOLID record references is the ID of exactly one *NODE record,
\* and that record has the coordinates of the corner's logical index.
C18_PassesAgree ==
    prog = "fem_sphere" =>
        /\ \A n \in 1..Count(f, "node") :
              LET r == f[n + 2]
                  ix == Unrank(n - 1, NodeGrid)
              IN  /\ ix \in DOMAIN node_map
                  /\ r.id = node_map[ix]
                  /\ <<r.x, r.y, r.z>> = HexSphereCoords(ix)
        /\ pc = "done" =>
              LET e == Records(f, "solid") IN
                \A m \in 1..Len(e) : \A k \in 1..8 :
                   LET corner == HexOrder(Unrank(m - 1, ElemGrid))[k]
                       hits == NodeRecordsOf(e[m].n[k])
                   IN  /\ Cardinality(hits) = 1
                       /\ \A n \in hits :
                             <<f[n].x, f[n].y, f[n].z>> = HexSphereCoords(corner)

\* a sphere of density 1 written out: 27 node records and 8 elements; the last
\* element's seventh corner (2,2,2) is the node of the 27th record
C18_Witness ==
    /\ prog = "fem_sphere" /\ pc = "done" /\ cfg.density = 1
    /\ Count(f, "node") = 27 /\ Count(f, "solid") = 8
    /\ f[Len(f) - 1].n[7] = node_map[<<2, 2, 2>>]
    /\ f[29].id = node_map[<<2, 2, 2>>]
    /\ <<f[29].x, f[29].y, f[29].z>> = HexSphereCoords(<<2, 2, 2>>)

====
